---- MODULE Spec2Model ----
(***************************************************************************)
(* Model of the Company Research API (src/main.py).                        *)
(*                                                                         *)
(* One request at a time is served: the endpoint coroutine awaits          *)
(* CompanyResearch.research_company, which contains no await of its own,   *)
(* so a request runs from start to finish before the event loop can pick   *)
(* up the next one.  A request is a sequential program whose only          *)
(* nondeterminism is the outside world: each attempt of an outbound call   *)
(* either returns a payload or raises, and a search returns any number of  *)
(* results.  The model takes one step per attempt of an outbound call and  *)
(* one step for each stretch of orchestration code between two calls.      *)
(*                                                                         *)
(* Strings are TLA+ strings; a Python dict is a record or a function.      *)
(* datetime.now() and the one-second pause after each section (line 258)   *)
(* change no value that any later line reads and are left out.             *)
(***************************************************************************)
EXTENDS Integers, Sequences, FiniteSets, TLC

(***************************************************************************)
(* Bounds of the model.                                                    *)
(***************************************************************************)
\* the largest number of results one search returns
MaxResults == 2
\* the number of requests the endpoint receives
MaxRequests == 2
\* the company inputs the requests carry
CompanyInputs == {"", "AAPL"}

(***************************************************************************)
(* Program constants.                                                      *)
(***************************************************************************)
\* Mutants: one attempt too many.
OpenAI_max_retries_one_more == 3 + 1
Tavily_max_retries_one_more == 3 + 1

\* OpenAIClient.generate_response: max_retries, retry_delay
OpenAI_max_retries == 3
OpenAI_retry_delay == 1
\* TavilyResearch.search: max_retries, retry_delay
Tavily_max_retries == 3
Tavily_retry_delay == 2
\* research_company: the shortest formatted query that is sent
MinQueryLen == 5

None == "None"
NoResults == [none |-> TRUE]

\* A query template is the text before and the text after "{company}".
research_sections ==
  << [name |-> "founded_year",
      query |-> <<"When was ", " founded?">>],
     [name |-> "managing_director",
      query |-> <<"Who is the current CEO of ", "?">>],
     [name |-> "introduction",
      queries |-> << <<"What is ", "'s main business?">>,
                     <<"What are ", "'s key achievements?">>,
                     <<"What is ", "'s market position?">> >>],
     [name |-> "company_overview",
      queries |-> << <<"What is ", "'s history?">>,
                     <<"How has ", " evolved?">>,
                     <<"What are ", "'s major milestones?">> >>],
     [name |-> "business_segments",
      queries |-> << <<"What are ", "'s business divisions?">>,
                     <<"What products does ", " offer?">>,
                     <<"What services does ", " provide?">> >>],
     [name |-> "leadership",
      queries |-> << <<"Who leads ", "?">>,
                     <<"Who are ", "'s board members?">>,
                     <<"Who are ", "'s executives?">> >>],
     [name |-> "financial_performance",
      queries |-> << <<"What is ", "'s recent revenue?">>,
                     <<"What is ", "'s profit growth?">>,
                     <<"What are ", "'s financial metrics?">> >>],
     [name |-> "business_segment_deep_dive",
      queries |-> << <<"How do ", "'s divisions perform?">>,
                     <<"What are ", "'s segment revenues?">>,
                     <<"How profitable are ", "'s segments?">> >>],
     [name |-> "recent_developments",
      queries |-> << <<"What are ", "'s latest announcements?">>,
                     <<"What are ", "'s recent acquisitions?">>,
                     <<"What are ", "'s new projects?">> >>],
     [name |-> "industry_outlook",
      queries |-> << <<"How competitive is ", "?">>,
                     <<"What is ", "'s market share?">>,
                     <<"What are ", "'s growth prospects?">> >>] >>

NumSections == Len(research_sections)

SectionNames == {research_sections[i].name : i \in 1..NumSections}

(***************************************************************************)
(* Pure pieces of research_company.                                        *)
(***************************************************************************)
\* section.get('queries', [section['query']] if 'query' in section else [])
Queries(section) ==
  IF "queries" \in DOMAIN section THEN section.queries
  ELSE IF "query" \in DOMAIN section THEN <<section.query>>
  ELSE <<>>

\* query.format(company=company_input)
format(query, company) == query[1] \o company \o query[2]

\* Mutant: the comparison the wrong way round.
TooShort_inverted(formatted_query) == Len(formatted_query) > MinQueryLen

\* len(formatted_query) < 5
TooShort(formatted_query) == Len(formatted_query) < MinQueryLen

\* f"Title: {result['title']}\nContent: {result['content']}"
TitleContent(r) == "Title: " \o r.title \o "\nContent: " \o r.content

\* "\n\n".join(strs)
RECURSIVE join(_)
join(strs) ==
  IF strs = <<>> THEN ""
  ELSE IF Len(strs) = 1 THEN strs[1]
  ELSE strs[1] \o "\n\n" \o join(Tail(strs))

\* "\n\n".join(f"Title: ..." for result in search_results['results'])
QueryContent(results) == join([i \in 1..Len(results) |-> TitleContent(results[i])])

\* combined_content += "\n\n" + query_content if combined_content else query_content
Combine(combined, query_content) ==
  combined \o (IF combined # "" THEN "\n\n" \o query_content ELSE query_content)

\* Mutant: the mapping is replaced instead of extended.
StoreSection_replace(sections, name, section_info) == [k \in {name} |-> section_info]

\* company_data['sections'][name] = section_info
StoreSection(sections, name, section_info) ==
  [k \in DOMAIN sections \cup {name} |->
     IF k = name THEN section_info ELSE sections[k]]

\* Mutant: the delay grows by a constant instead of doubling.
Backoff_additive(delay) == delay + 2

\* the retry loops: retry_delay *= 2
Backoff(delay) == delay * 2

\* the retry loops: for attempt in range(max_retries)
InRange(a, max_retries) == a \in 0..(max_retries - 1)

\* Mutant: gives up one attempt early.
LastAttempt_early(a, max_retries) == a = max_retries - 2

\* the retry loops: if attempt == max_retries - 1: raise HTTPException(...)
LastAttempt(a, max_retries) == a = max_retries - 1


(***************************************************************************)
(* The outside world.                                                      *)
(***************************************************************************)
\* the exception an outbound attempt raises
Error == [error |-> "api error"]

\* the body of a successful chat completion: the model's text for the prompt
\* of this request (response.json()['choices'][0]['message']['content'])
Completion(req, prompt) ==
  [content |-> "reply#" \o ToString(req) \o ":" \o prompt.about]

\* a successful search for formatted_query that found n results
SearchResult(formatted_query, i) ==
  [title |-> formatted_query \o "#" \o ToString(i), content |-> "c" \o ToString(i)]

SearchResponse(formatted_query, n) ==
  [results |-> [i \in 1..n |-> SearchResult(formatted_query, i)]]

(***************************************************************************)
(* State.                                                                  *)
(***************************************************************************)
VARIABLES
  pc,               \* where the server is: "idle", or the function it is in
  req_no,           \* requests received so far
  allocated,        \* dicts created for "sections" so far (object identities)
  profiles,         \* history: the identity and input of every profile returned
  response,         \* what the endpoint answered to the current request
  company_input,    \* research_company: argument
  resolved_info,    \* research_company: local
  company_data,     \* research_company: local, the profile under construction
  sec,              \* research_company: position of `section` in research_sections
  qi,               \* research_company: position of `query` in queries
  combined_content, \* research_company: local
  search_results,   \* research_company: local, what tavily.search returned
  result,           \* resolve_company_info / extract_section_info: local
  prompt,           \* resolve_company_info / extract_section_info: local
  formatted_query,  \* research_company: local, the argument of tavily.search
  attempt,          \* retry loop: loop variable
  retry_delay,      \* retry loop: local
  outcomes,         \* history: what each attempt of the current call got
  sleeps,           \* history: the time.sleep arguments of the current call
  trace,            \* history: calls issued and returned, sections stored, this request
  section_results   \* history: the result lists the searches of this section returned

callvars == <<attempt, retry_delay, outcomes, sleeps>>
vars == <<pc, req_no, allocated, profiles, response, company_input, resolved_info,
          company_data, sec, qi, combined_content, search_results, result, prompt,
          formatted_query, attempt, retry_delay, outcomes, sleeps, trace,
          section_results>>

NoData == [none |-> TRUE]
NoPrompt == [template |-> "none", about |-> "", content |-> ""]
NoResponse == [status |-> 0]

\* resolve_company_info: prompt
ResolvePrompt(input_text) == [template |-> "resolve", about |-> input_text, content |-> ""]

\* extract_section_info: prompt
ExtractPrompt(content, section_name) ==
  [template |-> "extract", about |-> section_name, content |-> content]

\* Mutant: one dict, created once, serves every request.
NewCompanyData_shared(input, resolved, id) ==
  [input |-> input, resolved_info |-> resolved, sections |-> [id |-> 1, items |-> <<>>]]

\* research_company: company_data = {...}; "sections": {} is a new dict
NewCompanyData(input, resolved, id) ==
  [input |-> input, resolved_info |-> resolved, sections |-> [id |-> id, items |-> <<>>]]

\* endpoint: return result
HandlerReturn(data) == [status |-> 200, body |-> data]

\* Mutant: the error is swallowed and what has been collected is returned.
HandlerError_partial(detail) == [status |-> 200, body |-> company_data]

\* endpoint: except Exception as e: raise HTTPException(status_code=500, detail=str(e))
\* (detail stands for str(e), the text of the exception that arrived)
HandlerError(detail) == [status |-> 500, detail |-> detail]

Init ==
  /\ pc = "idle"
  /\ req_no = 0
  /\ allocated = 0
  /\ profiles = {}
  /\ response = NoResponse
  /\ company_input = None
  /\ resolved_info = None
  /\ company_data = NoData
  /\ sec = 0
  /\ qi = 0
  /\ combined_content = ""
  /\ search_results = NoResults
  /\ result = None
  /\ prompt = NoPrompt
  /\ formatted_query = None
  /\ attempt = 0
  /\ retry_delay = 0
  /\ outcomes = <<>>
  /\ sleeps = <<>>
  /\ trace = <<>>
  /\ section_results = <<>>

(***************************************************************************)
(* research_company: from a place in the two loops to the next outbound    *)
(* call, or to the return.                                                 *)
(***************************************************************************)
\* Mutant: the query loop stops after the first query.
NextQuery_first_only(queries, j, company) == IF j = 1 /\ Len(queries) >= 1 THEN 1 ELSE 0

\* for query in queries: ... if len(formatted_query) < 5: continue
\* the first query at or after position j that is sent, 0 when there is none
RECURSIVE NextQuery(_, _, _)
NextQuery(queries, j, company) ==
  IF j > Len(queries) THEN 0
  ELSE IF TooShort(format(queries[j], company)) THEN NextQuery(queries, j + 1, company)
  ELSE j

\* Inside section s with the queries before position j done.
InSection(s, j, content, tr) ==
  LET queries == Queries(research_sections[s])
      n == NextQuery(queries, j, company_input)
  IN  /\ sec' = s
      /\ combined_content' = content
      /\ outcomes' = <<>>
      /\ sleeps' = <<>>
      /\ attempt' = 0
      /\ UNCHANGED <<response, profiles>>
      /\ IF n # 0
         THEN \* search_results = self.tavily.search(formatted_query)
              /\ pc' = "search"
              /\ qi' = n
              /\ formatted_query' = format(queries[n], company_input)
              /\ retry_delay' = Tavily_retry_delay
              /\ trace' = Append(tr, <<"search", s, n>>)
              /\ prompt' = NoPrompt
         ELSE \* section_info = self.extract_section_info(combined_content, section['name'])
              /\ pc' = "extract_section_info"
              /\ qi' = Len(queries) + 1
              /\ prompt' = ExtractPrompt(content, research_sections[s].name)
              /\ retry_delay' = OpenAI_retry_delay
              /\ trace' = Append(tr, <<"summarize", s, 0>>)
              /\ UNCHANGED formatted_query

\* for section in self.research_sections: ... return company_data
EnterSection(s, data, tr) ==
  IF s <= NumSections
  THEN /\ section_results' = <<>>
       /\ InSection(s, 1, "", tr)
  ELSE /\ pc' = "idle"
       /\ response' = HandlerReturn(data)
       /\ profiles' = profiles \cup {[id |-> data.sections.id, input |-> data.input]}
       /\ trace' = tr
       /\ prompt' = NoPrompt
       /\ outcomes' = <<>>
       /\ sleeps' = <<>>
       /\ UNCHANGED <<sec, qi, combined_content, formatted_query, attempt, retry_delay,
                      section_results>>

\* An exception leaves research_company and reaches the endpoint's except clause.
Raise(detail) ==
  /\ pc' = "idle"
  /\ response' = HandlerError(detail)

(***************************************************************************)
(* Actions.                                                                *)
(***************************************************************************)
\* POST /research_company arrives; research_company runs up to the resolver's first attempt.
Receive(input) ==
  /\ pc = "idle"
  /\ req_no < MaxRequests
  /\ req_no' = req_no + 1
  /\ response' = NoResponse
  /\ company_input' = input
  /\ resolved_info' = None
  /\ company_data' = NoData
  /\ sec' = 0
  /\ qi' = 0
  /\ combined_content' = ""
  /\ search_results' = NoResults
  /\ result' = None
  /\ section_results' = <<>>
  /\ formatted_query' = None
  \* result = self.openai.generate_response(messages, self.model)
  /\ pc' = "resolve_company_info"
  /\ prompt' = ResolvePrompt(input)
  /\ attempt' = 0
  /\ retry_delay' = OpenAI_retry_delay
  /\ outcomes' = <<>>
  /\ sleeps' = <<>>
  /\ trace' = << <<"resolve", 0, 0>> >>
  /\ UNCHANGED <<allocated, profiles>>

\* generate_response: an attempt whose requests.post succeeds; return the content
OpenAISuccess ==
  /\ pc \in {"resolve_company_info", "extract_section_info"}
  /\ InRange(attempt, OpenAI_max_retries)
  /\ LET reply == Completion(req_no, prompt)
     IN  /\ outcomes' = Append(outcomes, reply)
         /\ result' = reply.content
  /\ pc' = IF pc = "resolve_company_info" THEN "resolved" ELSE "extracted"
  /\ UNCHANGED <<req_no, allocated, profiles, response, company_input, resolved_info,
                 company_data, sec, qi, combined_content, search_results, prompt,
                 formatted_query, attempt, retry_delay, sleeps, trace, section_results>>

\* generate_response: an attempt that raises; sleep and go round, or raise on the last one
OpenAIFailure ==
  /\ pc \in {"resolve_company_info", "extract_section_info"}
  /\ InRange(attempt, OpenAI_max_retries)
  /\ outcomes' = Append(outcomes, Error)
  /\ IF LastAttempt(attempt, OpenAI_max_retries)
     THEN /\ Raise("OpenAI API error: " \o Error.error)
          /\ UNCHANGED <<attempt, retry_delay, sleeps, result>>
     ELSE /\ sleeps' = Append(sleeps, retry_delay)
          /\ retry_delay' = Backoff(retry_delay)
          /\ attempt' = attempt + 1
          /\ UNCHANGED response
          /\ IF InRange(attempt + 1, OpenAI_max_retries)
             THEN UNCHANGED <<pc, result>>
             ELSE \* the loop ends and the function returns None
                  /\ pc' = IF pc = "resolve_company_info" THEN "resolved" ELSE "extracted"
                  /\ result' = None
  /\ UNCHANGED <<req_no, allocated, profiles, company_input, resolved_info, company_data,
                 sec, qi, combined_content, search_results, prompt, formatted_query,
                 trace, section_results>>

\* search: an attempt whose client.search succeeds with n results; return the result
TavilySuccess(n) ==
  /\ pc = "search"
  /\ InRange(attempt, Tavily_max_retries)
  /\ LET found == SearchResponse(formatted_query, n)
     IN  /\ outcomes' = Append(outcomes, found)
         /\ search_results' = found
  /\ pc' = "searched"
  /\ UNCHANGED <<req_no, allocated, profiles, response, company_input, resolved_info,
                 company_data, sec, qi, combined_content, result, prompt,
                 formatted_query, attempt, retry_delay, sleeps, trace, section_results>>

\* search: an attempt that raises; sleep and go round, or raise on the last one
TavilyFailure ==
  /\ pc = "search"
  /\ InRange(attempt, Tavily_max_retries)
  /\ outcomes' = Append(outcomes, Error)
  /\ IF LastAttempt(attempt, Tavily_max_retries)
     THEN /\ Raise("Tavily API error: " \o Error.error)
          /\ UNCHANGED <<attempt, retry_delay, sleeps, search_results>>
     ELSE /\ sleeps' = Append(sleeps, retry_delay)
          /\ retry_delay' = Backoff(retry_delay)
          /\ attempt' = attempt + 1
          /\ UNCHANGED response
          /\ IF InRange(attempt + 1, Tavily_max_retries)
             THEN UNCHANGED <<pc, search_results>>
             ELSE \* the loop ends and the function returns None
                  /\ pc' = "searched"
                  /\ search_results' = NoResults
  /\ UNCHANGED <<req_no, allocated, profiles, company_input, resolved_info, company_data,
                 sec, qi, combined_content, result, prompt, formatted_query,
                 trace, section_results>>

\* research_company: resolved_info = ...; company_data = {...}; enter the section loop
AfterResolve ==
  /\ pc = "resolved"
  /\ resolved_info' = result
  /\ allocated' = allocated + 1
  /\ company_data' = NewCompanyData(company_input, result, allocated + 1)
  /\ EnterSection(1, company_data', Append(trace, <<"resolved", 0, 0>>))
  /\ UNCHANGED <<req_no, company_input, search_results, result>>

\* research_company: join the results, add them to combined_content, next query
AfterSearch ==
  /\ pc = "searched"
  /\ IF search_results = NoResults
     THEN \* search_results['results'] on None raises TypeError
          /\ Raise("'NoneType' object is not subscriptable")
          /\ UNCHANGED <<profiles, sec, qi, combined_content, prompt, formatted_query,
                         callvars, trace, section_results>>
     ELSE /\ section_results' = Append(section_results, search_results.results)
          /\ InSection(sec, qi + 1,
                       Combine(combined_content, QueryContent(search_results.results)),
                       Append(trace, <<"searched", sec, qi>>))
  /\ UNCHANGED <<req_no, allocated, company_input, resolved_info, company_data,
                 search_results, result>>

\* extract_section_info returns; research_company stores the summary, next section
AfterSummarize ==
  /\ pc = "extracted"
  /\ IF result = None
     THEN \* len(result) on None raises TypeError (extract_section_info's log line)
          /\ Raise("object of type 'NoneType' has no len()")
          /\ UNCHANGED <<profiles, company_data, sec, qi, combined_content, prompt,
                         formatted_query, callvars, trace, section_results>>
     ELSE /\ company_data' =
               [company_data EXCEPT !.sections.items =
                  StoreSection(@, research_sections[sec].name, result)]
          /\ EnterSection(sec + 1, company_data',
                          trace \o << <<"summarized", sec, 0>>, <<"store", sec, 0>> >>)
  /\ UNCHANGED <<req_no, allocated, company_input, resolved_info, search_results, result>>

Next ==
  \/ \E input \in CompanyInputs : Receive(input)
  \/ OpenAISuccess
  \/ OpenAIFailure
  \/ \E n \in 0..MaxResults : TavilySuccess(n)
  \/ TavilyFailure
  \/ AfterResolve
  \/ AfterSearch
  \/ AfterSummarize

Spec == Init /\ [][Next]_vars

\* The server runs on: an attempt in progress returns or raises, and the code between
\* two calls is executed.  Only the arrival of a request is up to the outside world.
Step ==
  \/ OpenAISuccess
  \/ OpenAIFailure
  \/ \E n \in 0..MaxResults : TavilySuccess(n)
  \/ TavilyFailure
  \/ AfterResolve
  \/ AfterSearch
  \/ AfterSummarize

FairSpec == Spec /\ WF_vars(Step)

(***************************************************************************)
(* Reading the history.                                                    *)
(***************************************************************************)
Last(seq) == seq[Len(seq)]

Min(a, b) == IF a < b THEN a ELSE b

IsPrefix(a, b) == Len(a) <= Len(b) /\ a = SubSeq(b, 1, Len(a))

\* how many events of the given kinds the trace holds
Count(tr, kinds) == Cardinality({i \in 1..Len(tr) : tr[i][1] \in kinds})

\* how many attempts of the current call raised
Failures == Cardinality({i \in 1..Len(outcomes) : outcomes[i] = Error})

\* every attempt allowed to the current call raised
Exhausted == Len(outcomes) = 3 /\ Failures = 3

\* the current call succeeded on its latest attempt
Succeeded == outcomes # <<>> /\ Last(outcomes) # Error

\* the client of the call that was issued last and has not been consumed
CurrentClient ==
  IF trace = <<>> THEN "none"
  ELSE IF Last(trace)[1] = "search" THEN "tavily"
  ELSE IF Last(trace)[1] \in {"resolve", "summarize"} THEN "openai"
  ELSE "none"

InCall == pc \in {"resolve_company_info", "extract_section_info", "search"}

Returned200 == pc = "idle" /\ response.status = 200
Returned500 == pc = "idle" /\ response.status = 500

\* the templates of a section as listed in research_sections
Templates(section) ==
  IF "queries" \in DOMAIN section THEN section.queries ELSE <<section.query>>

\* the positions of the templates of section s whose formatted query has 5 characters or more
Sendable(s, company) ==
  LET ts == Templates(research_sections[s])
  IN  SelectSeq([j \in 1..Len(ts) |-> j],
                LAMBDA j : Len(ts[j][1] \o company \o ts[j][2]) >= 5)

RECURSIVE Flatten(_)
Flatten(seqs) == IF seqs = <<>> THEN <<>> ELSE Head(seqs) \o Flatten(Tail(seqs))

\* the events of section s in a request that runs through it
SectionTrace(s, company) ==
  LET js == Sendable(s, company)
  IN  Flatten([k \in 1..Len(js) |-> << <<"search", s, js[k]>>, <<"searched", s, js[k]>> >>])
      \o << <<"summarize", s, 0>>, <<"summarized", s, 0>>, <<"store", s, 0>> >>

\* the events of a request that runs to its end: resolve, then section after section
ExpectedTrace(company) ==
  << <<"resolve", 0, 0>>, <<"resolved", 0, 0>> >>
  \o Flatten([s \in 1..NumSections |-> SectionTrace(s, company)])

(***************************************************************************)
(* C1.  No outbound call (generate_response, search) makes more than 3     *)
(* attempts, whatever the service does; once the third attempt has failed  *)
(* the call is over: the server is out of the retry loop.                  *)
(***************************************************************************)
C1_AtMostThreeAttempts ==
  /\ Len(outcomes) <= 3
  /\ Exhausted => ~InCall

\* a search has failed three times
C1_Witness == Exhausted /\ CurrentClient = "tavily" /\ pc = "idle"

(***************************************************************************)
(* C2.  The delay doubles from the base: the sleeps of one search are 2    *)
(* then 4 seconds, those of one generate_response are 1 then 2 seconds;    *)
(* every call starts again from the base, and nothing is slept after the   *)
(* third failed attempt.                                                   *)
(***************************************************************************)
C2_BackoffDoubles ==
  /\ CurrentClient = "tavily" => sleeps = SubSeq(<<2, 4>>, 1, Min(Failures, 2))
  /\ CurrentClient = "openai" => sleeps = SubSeq(<<1, 2>>, 1, Min(Failures, 2))
  /\ CurrentClient = "none" => sleeps = <<>>
  /\ (pc = "search" /\ outcomes = <<>>) => retry_delay = 2
  /\ (pc \in {"resolve_company_info", "extract_section_info"} /\ outcomes = <<>>)
       => retry_delay = 1

\* the first summarization, issued after a search has returned, failed three times:
\* it slept 1 and 2 seconds, and not a third time
C2_Witness ==
  /\ Exhausted
  /\ Last(trace) = <<"summarize", 1, 0>>
  /\ sleeps = <<1, 2>>

(***************************************************************************)
(* C3.  No partial result: when a call has failed on all 3 attempts the    *)
(* request is over with status 500, the answer carries no profile, and the *)
(* failed call is the last thing the request issued.                       *)
(***************************************************************************)
C3_NoPartialResult ==
  Exhausted =>
    /\ Returned500
    /\ "body" \notin DOMAIN response
    /\ Last(trace)[1] \in {"resolve", "search", "summarize"}

\* a search fails for good when two sections have been summarized already
C3_Witness ==
  /\ Exhausted
  /\ Last(trace)[1] = "search"
  /\ Cardinality(DOMAIN company_data.sections.items) = 2
  /\ Returned500

(***************************************************************************)
(* C4.  A returned profile has exactly the 10 section names of             *)
(* research_sections as the keys of its sections, whatever the input and   *)
(* the search results.                                                     *)
(***************************************************************************)
C4_ExactlyTheTenSections ==
  Returned200 =>
    /\ DOMAIN response.body.sections.items = SectionNames
    /\ Cardinality(DOMAIN response.body.sections.items) = 10

\* a profile returned for the empty input, the searches of its last section finding nothing
C4_Witness ==
  /\ Returned200
  /\ company_input = ""
  /\ section_results = << <<>>, <<>>, <<>> >>

(***************************************************************************)
(* C5.  A query is sent to the search client exactly when its formatted    *)
(* text has 5 characters or more: every search in progress has such a      *)
(* query, the one the position in the section's templates gives, and when  *)
(* a section is summarized every such query of the section has been        *)
(* searched.  No template of research_sections formats to fewer than 5     *)
(* characters; on a template list that does, the query loop passes over    *)
(* the short ones and stops at the first of 5 characters or more.          *)
(***************************************************************************)
\* templates that format to 0, 4 and 5 characters for the empty input
ShortTemplates == << <<"", "">>, <<"Who?", "">>, <<"Who ", "?">> >>

C5_SentIffLongEnough ==
  /\ \A company \in CompanyInputs :
       LET n == NextQuery(ShortTemplates, 1, company)
           len(j) == Len(ShortTemplates[j][1] \o company \o ShortTemplates[j][2])
       IN  /\ n \in 1..Len(ShortTemplates)
           /\ len(n) >= 5
           /\ \A j \in 1..(n - 1) : len(j) < 5
  /\ pc = "search" =>
       /\ Len(formatted_query) >= 5
       /\ formatted_query =
            Templates(research_sections[sec])[qi][1] \o company_input
              \o Templates(research_sections[sec])[qi][2]
  \* every event is the last one of the trace when it is added
  /\ trace # <<>> =>
       LET e == Last(trace)
           js == Sendable(e[2], company_input)
       IN  /\ e[1] = "search" => \E k \in 1..Len(js) : js[k] = e[3]
           /\ e[1] = "summarize" =>
                \A k \in 1..Len(js) :
                   \E h \in 1..Len(trace) : trace[h] = <<"search", e[2], js[k]>>

\* the shortest query there is, "Who leads ?", is sent
C5_Witness ==
  /\ pc = "search"
  /\ company_input = ""
  /\ formatted_query = "Who leads ?"
  /\ Len(formatted_query) = 11

(***************************************************************************)
(* C6.  One request is a straight line: the resolver returns before the    *)
(* first search, the sections come in the order of research_sections, the  *)
(* searches of a section return in template order before its one           *)
(* summarization is issued, and its summary is stored before the next      *)
(* section's first search; a section with empty content is summarized too. *)
(***************************************************************************)
C6_LinearControlFlow ==
  /\ req_no > 0 =>
       LET expected == ExpectedTrace(company_input)
       IN  /\ IsPrefix(trace, expected)
           /\ Returned200 => trace = expected
  /\ pc = "extract_section_info" =>
       /\ Last(trace) = <<"summarize", sec, 0>>
       /\ Count(trace, {"summarize"}) = sec
       /\ DOMAIN company_data.sections.items =
            {research_sections[k].name : k \in 1..(sec - 1)}

\* the third section is summarized after its three searches found nothing
C6_Witness ==
  /\ pc = "extract_section_info"
  /\ sec = 3
  /\ prompt.content = ""
  /\ Len(section_results) = 3

(***************************************************************************)
(* C7.  Nothing is kept from one request to the next: a request that       *)
(* returns a profile has made its own resolver call, its own 10            *)
(* summarization calls and its own searches; every text in its profile is  *)
(* a reply given to this request; and its sections mapping is an object no *)
(* profile returned before holds.                                          *)
(***************************************************************************)
C7_NoCachingAcrossRequests ==
  /\ Returned200 =>
       /\ Count(trace, {"resolve"}) = 1
       /\ Count(trace, {"summarize"}) = 10
       /\ Count(trace, {"search"}) = 26
       /\ response.body.input = company_input
       /\ response.body.resolved_info =
            Completion(req_no, ResolvePrompt(company_input)).content
       /\ \A k \in 1..NumSections :
            response.body.sections.items[research_sections[k].name] =
              Completion(req_no, ExtractPrompt("", research_sections[k].name)).content
  /\ (pc # "idle" /\ company_data # NoData) =>
       \A p \in profiles : p.id # company_data.sections.id
  /\ \A p, q \in profiles : p.id = q.id => p = q

\* two profiles have been returned for the same input
C7_Witness ==
  /\ Returned200
  /\ req_no = 2
  /\ \E p, q \in profiles : p.id # q.id /\ p.input = q.input

(***************************************************************************)
(* C8.  The text given to the summarizer is the "Title/Content" pairs of   *)
(* all results of the section's searches, in query order then result       *)
(* order, with exactly one "\n\n" between consecutive pairs and none       *)
(* before the first or after the last, whatever the result counts.         *)
(***************************************************************************)
\* the pairs of all results of the searches of the section, in order
SectionPairs ==
  Flatten([q \in 1..Len(section_results) |->
             [i \in 1..Len(section_results[q]) |-> TitleContent(section_results[q][i])]])

C8_OneSeparatorBetweenPairs ==
  pc = "extract_section_info" => prompt.content = join(SectionPairs)

(***************************************************************************)
(* C9.  A call whose attempt k is the first to succeed returns what that   *)
(* attempt got, with no attempt after it and no error; so status 500 is    *)
(* answered only when a call has failed 3 times, and every other request   *)
(* that ends returns a profile with all its sections.                      *)
(***************************************************************************)
C9_TransientFailuresRecovered ==
  /\ Succeeded =>
       /\ pc \in {"resolved", "extracted", "searched"}
       /\ Failures = Len(outcomes) - 1
       /\ pc = "searched" => search_results = Last(outcomes)
       /\ pc \in {"resolved", "extracted"} => result = Last(outcomes).content
       /\ response.status # 500
  /\ Returned500 => Exhausted
  /\ (pc = "idle" /\ req_no > 0 /\ ~Exhausted) =>
       /\ response.status = 200
       /\ DOMAIN response.body.sections.items = SectionNames

\* a summarization returns the reply of its third attempt
C9_Witness ==
  /\ pc = "extracted"
  /\ Len(outcomes) = 3
  /\ Failures = 2
  /\ result = Last(outcomes).content

(***************************************************************************)
(* C10.  Every request ends, with a profile or with an error.  It issues   *)
(* at most 11 language-model calls and 26 searches, each of at most 3      *)
(* attempts: at most 33 language-model attempts and 78 search attempts.    *)
(***************************************************************************)
\* attempts made so far for this request are at most 3 for each call that returned,
\* plus those of the call in progress
LLMAttemptsAtMost ==
  3 * Count(trace, {"resolved", "summarized"})
    + (IF CurrentClient = "openai" THEN Len(outcomes) ELSE 0)

SearchAttemptsAtMost ==
  3 * Count(trace, {"searched"})
    + (IF CurrentClient = "tavily" THEN Len(outcomes) ELSE 0)

C10_EveryRequestTerminates ==
  /\ [](/\ Len(outcomes) <= 3
        /\ Count(trace, {"resolve", "summarize"}) <= 11
        /\ Count(trace, {"search"}) <= 26
        /\ LLMAttemptsAtMost <= 33
        /\ SearchAttemptsAtMost <= 78)
  /\ (pc # "idle") ~> (pc = "idle")

\* a request that made all its 37 calls has ended
C10_Witness ==
  /\ pc = "idle"
  /\ req_no = MaxRequests
  /\ Count(trace, {"resolve", "summarize"}) = 11
  /\ Count(trace, {"search"}) = 26

====
